---- MODULE Spec2Model ----
(***************************************************************************)
(* django_rethink/views.py: the single-object resolver                     *)
(* (RethinkSingleObjectMixin) and the update-or-insert view                *)
(* (RethinkUpdateView), run against a model of the RethinkDB operations    *)
(* the view issues (filter, get_all, update, insert).                      *)
(***************************************************************************)
EXTENDS Integers, Sequences, FiniteSets, TLC

\* ---------------------------------------------------------------- bounds
MaxRequests == 2        \* requests served in one behaviour

\* ------------------------------------------------------- program constants
NestingDepth == 40      \* r.expr(..., nesting_depth=40)

None == "None"

\* ------------------------------------------------------------------ values
\* Every value is a record of one shape.  kind "missing" is the absence of a
\* field; "str" a string s; "list" the one-element list [s]; "obj" a chain
\* of depth nested mappings {k: {k: ... }} whose innermost mapping holds the
\* string s, or is empty when s = ""; "objlist" a chain of depth containers,
\* the innermost being the list [s] and the others mappings.
Missing == [kind |-> "missing", s |-> "", depth |-> 0]
Str(s) == [kind |-> "str", s |-> s, depth |-> 0]
List1(s) == [kind |-> "list", s |-> s, depth |-> 1]
Nest(d, s) == [kind |-> "obj", s |-> s, depth |-> d]
NestList(d, s) == [kind |-> "objlist", s |-> s, depth |-> d]

Fields == {"id", "slug", "name"}
PrimaryKey == "id"

Doc(i, s, n) == [id |-> i, slug |-> s, name |-> n]
EmptyDict == Doc(Missing, Missing, Missing)

\* The values directly inside a container.
Children(val) ==
    IF val.kind = "list" THEN {Str(val.s)}
    ELSE IF val.kind = "obj"
         THEN IF val.depth > 1 THEN {Nest(val.depth - 1, val.s)}
              ELSE IF val.s = "" THEN {} ELSE {Str(val.s)}
         ELSE IF val.kind = "objlist"
         THEN IF val.depth > 2 THEN {NestList(val.depth - 1, val.s)}
              ELSE {List1(val.s)}
         ELSE {}

\* r.expr(val, nesting_depth): TRUE when the conversion succeeds, FALSE when
\* it raises ReqlDriverCompileError("Nesting depth limit exceeded").
RECURSIVE expr(_, _)
expr(val, nesting_depth) ==
    IF nesting_depth <= 0 THEN FALSE
    ELSE \A child \in Children(val) : expr(child, nesting_depth - 1)

\* r.expr of a mapping (a payload or a document): one level for the mapping,
\* then each of its values.
\* r.expr that lets every depth through.
exprDict_unbounded(data, nesting_depth) == nesting_depth > 0

exprDict(data, nesting_depth) ==
    IF nesting_depth <= 0 THEN FALSE
    ELSE \A f \in Fields :
            data[f] # Missing => expr(data[f], nesting_depth - 1)

\* Number of nested containers of a mapping, itself included.
Levels(data) ==
    LET ds == {IF data[f].kind \in {"list", "obj", "objlist"} THEN data[f].depth ELSE 0 :
                  f \in Fields}
    IN 1 + CHOOSE m \in ds : \A x \in ds : x <= m

\* ------------------------------------------------------------------- store
\* The tables of the database and the secondary indexes each one has; an
\* index is named after the field it is built on, and the primary key is
\* always usable as an index.
TableNames == {"widgets", "gadgets"}
TableIndexes(t) == IF t = "widgets" THEN {"id", "slug", "name"} ELSE {"id"}
IndexField(index) == index

\* Queries as the view builds them: r.table(t), then optionally
\* .get_all(key, index=on) or .filter(r.row[on] == key).
Table(t) == [op |-> "table", table |-> t, on |-> "", key |-> ""]
NoQuery == [op |-> "none", table |-> "", on |-> "", key |-> ""]
GetAllQ(queryset, key, index) ==
    [op |-> "get_all", table |-> queryset.table, on |-> index, key |-> key]
FilterQ(queryset, field, key) ==
    [op |-> "filter", table |-> queryset.table, on |-> field, key |-> key]

\* r.row[field] on a document: a non-existence error when the field is
\* absent; filter() drops the documents on which its predicate errs.
RowEq(doc, field, key) ==
    IF doc[field] = Missing THEN "error"
    ELSE IF doc[field] = Str(key) THEN "true" ELSE "false"

Filter(docs, field, key) == {d \in docs : RowEq(d, field, key) = "true"}

\* A secondary index holds one entry (value, primary key) per document that
\* has the indexed field; get_all fetches the documents of the entries
\* whose value is the key.
IndexEntries(docs, index) ==
    {<<d[IndexField(index)], d[PrimaryKey]>> :
        d \in {x \in docs : x[IndexField(index)] # Missing}}

GetAll(docs, key, index) ==
    LET hits == {e \in IndexEntries(docs, index) : e[1] = Str(key)}
    IN {d \in docs : \E e \in hits : e[2] = d[PrimaryKey]}

\* Whether running the query raises ReqlOpFailedError / ReqlQueryLogicError
\* (no such table, no such index) instead of returning.
QueryRaises(q) ==
    \/ q.table \notin TableNames
    \/ q.op = "get_all" /\ q.on \notin TableIndexes(q.table)

\* The documents a query selects.
Selection(tbls, q) ==
    IF QueryRaises(q) THEN {}
    ELSE IF q.op = "get_all" THEN GetAll(tbls[q.table], q.key, q.on)
    ELSE IF q.op = "filter" THEN Filter(tbls[q.table], q.on, q.key)
    ELSE tbls[q.table]

\* update() merges the payload into the document: absent fields are kept,
\* two mappings are merged recursively, anything else is replaced.
MergeValue(old, new) ==
    IF /\ old.kind \in {"obj", "objlist"}
       /\ new.kind = "obj" /\ new.s = ""
       /\ old.depth >= new.depth + (IF old.kind = "objlist" THEN 1 ELSE 0)
    THEN old
    ELSE new

MergeField(doc, data, f) ==
    IF data[f] = Missing THEN doc[f] ELSE MergeValue(doc[f], data[f])

MergeDoc(doc, data) ==
    Doc(MergeField(doc, data, "id"), MergeField(doc, data, "slug"),
        MergeField(doc, data, "name"))

\* The result of a write: the counters of the store's reply, first_error
\* when errors > 0, and whether the call raised instead of replying.
NoResult ==
    [ran |-> FALSE, raised |-> FALSE, deleted |-> 0, errors |-> 0,
     inserted |-> 0, replaced |-> 0, skipped |-> 0, unchanged |-> 0,
     first_error |-> FALSE]

Counters(res) ==
    {res.deleted, res.errors, res.inserted, res.replaced, res.skipped,
     res.unchanged}

Max(S) == CHOOSE m \in S : \A x \in S : x <= m

\* An update that would change a primary key is an error for that document.
UpdateErrs(doc, data) == MergeDoc(doc, data)[PrimaryKey] # doc[PrimaryKey]

\* An update that the store lets change the primary key: the document is
\* stored under its new key.
RunUpdate_rekeys(tbls, q, data) ==
    IF QueryRaises(q)
    THEN [tables |-> tbls, result |-> [NoResult EXCEPT !.ran = TRUE, !.raised = TRUE]]
    ELSE
    LET sel == Selection(tbls, q)
        same == {d \in sel : MergeDoc(d, data) = d}
        changed == sel \ same
        after == (tbls[q.table] \ changed) \cup {MergeDoc(d, data) : d \in changed}
    IN [tables |-> [tbls EXCEPT ![q.table] = after],
        result |-> [NoResult EXCEPT !.ran = TRUE,
                                    !.replaced = Cardinality(changed),
                                    !.unchanged = Cardinality(same)]]

\* queryset.update(data).run(conn)
RunUpdate(tbls, q, data) ==
    IF QueryRaises(q)
    THEN [tables |-> tbls, result |-> [NoResult EXCEPT !.ran = TRUE, !.raised = TRUE]]
    ELSE
    LET sel == Selection(tbls, q)
        bad == {d \in sel : UpdateErrs(d, data)}
        same == {d \in sel \ bad : MergeDoc(d, data) = d}
        changed == (sel \ bad) \ same
        after == (tbls[q.table] \ changed) \cup {MergeDoc(d, data) : d \in changed}
    IN [tables |-> [tbls EXCEPT ![q.table] = after],
        result |-> [NoResult EXCEPT !.ran = TRUE,
                                    !.errors = Cardinality(bad),
                                    !.replaced = Cardinality(changed),
                                    !.unchanged = Cardinality(same),
                                    !.first_error = (bad # {})]]

\* Primary keys the store generates for documents inserted without one.
GenSeq == <<"g1", "g2", "g3", "g4", "g5">>
UsedIds(tbls) == {d[PrimaryKey] : d \in UNION {tbls[t] : t \in TableNames}}
FreshIds(tbls) == {i \in 1..Len(GenSeq) : Str(GenSeq[i]) \notin UsedIds(tbls)}
FreshId(tbls) == Str(GenSeq[CHOOSE i \in FreshIds(tbls) : \A j \in FreshIds(tbls) : i <= j])

\* r.table(t).insert(doc).run(conn): a duplicate primary key is counted in
\* errors and leaves the table as it was; a document without a primary key
\* gets a generated one.
RunInsert(tbls, t, doc) ==
    IF t \notin TableNames
    THEN [tables |-> tbls, result |-> [NoResult EXCEPT !.ran = TRUE, !.raised = TRUE]]
    ELSE IF doc[PrimaryKey] # Missing /\ \E d \in tbls[t] : d[PrimaryKey] = doc[PrimaryKey]
    THEN [tables |-> tbls,
          result |-> [NoResult EXCEPT !.ran = TRUE, !.errors = 1, !.first_error = TRUE]]
    ELSE
    LET new == IF doc[PrimaryKey] = Missing
               THEN [doc EXCEPT ![PrimaryKey] = FreshId(tbls)] ELSE doc
    IN [tables |-> [tbls EXCEPT ![t] = tbls[t] \cup {new}],
        result |-> [NoResult EXCEPT !.ran = TRUE, !.inserted = 1]]

\* -------------------------------------------------------------------- view
\* A view class: the attributes of RethinkSingleObjectMixin and
\* RethinkUpdateView, and which get_insert_data the subclass supplies
\* ("undefined": none, the class as it stands).
SuccessTemplate == "/w/{slug}"

\* A raised exception, with the source line that raises it.
Raise(exc, at) == [ok |-> FALSE, q |-> NoQuery, exc |-> exc, at |-> at]
Return(q) == [ok |-> TRUE, q |-> q, exc |-> "", at |-> 0]

get_queryset(view) ==
    IF view.queryset = None
    THEN IF view.table_name # None
         THEN Return(Table(view.table_name))
         ELSE Raise("ImproperlyConfigured", 80)
    ELSE Return(Table(view.queryset))

\* get_object_qs with the slug tested before the pk.
get_object_qs_slug_first(view, kwargs) ==
    LET base == get_queryset(view)
        queryset == base.q
        pk == kwargs.pk
        slug == kwargs.slug
    IN IF ~base.ok THEN base
       ELSE IF pk = None /\ slug = None THEN Raise("AttributeError", 49)
       ELSE IF slug # None
       THEN IF view.slug_index_name # None
            THEN Return(GetAllQ(queryset, slug, view.slug_index_name))
            ELSE Return(FilterQ(queryset, view.slug_field, slug))
       ELSE IF view.pk_index_name # None
            THEN Return(GetAllQ(queryset, pk, view.pk_index_name))
            ELSE Return(FilterQ(queryset, view.pk_field, pk))

\* get_object_qs returning the base queryset when neither pk nor slug is given.
get_object_qs_no_raise(view, kwargs) ==
    LET base == get_queryset(view)
        queryset == base.q
        pk == kwargs.pk
        slug == kwargs.slug
    IN IF ~base.ok THEN base
       ELSE IF pk = None /\ slug = None THEN Return(queryset)
       ELSE IF pk # None
       THEN IF view.pk_index_name # None
            THEN Return(GetAllQ(queryset, pk, view.pk_index_name))
            ELSE Return(FilterQ(queryset, view.pk_field, pk))
       ELSE IF view.slug_index_name # None
            THEN Return(GetAllQ(queryset, slug, view.slug_index_name))
            ELSE Return(FilterQ(queryset, view.slug_field, slug))

\* get_object_qs filtering the pk on slug_field.
get_object_qs_wrong_field(view, kwargs) ==
    LET base == get_queryset(view)
        queryset == base.q
        pk == kwargs.pk
        slug == kwargs.slug
    IN IF ~base.ok THEN base
       ELSE IF pk = None /\ slug = None THEN Raise("AttributeError", 49)
       ELSE IF pk # None
       THEN IF view.pk_index_name # None
            THEN Return(GetAllQ(queryset, pk, view.pk_index_name))
            ELSE Return(FilterQ(queryset, view.slug_field, pk))
       ELSE IF view.slug_index_name # None
            THEN Return(GetAllQ(queryset, slug, view.slug_index_name))
            ELSE Return(FilterQ(queryset, view.slug_field, slug))

get_object_qs(view, kwargs) ==
    LET base == get_queryset(view)
        queryset == base.q
        pk == kwargs.pk
        slug == kwargs.slug
    IN IF ~base.ok THEN base
       ELSE IF pk = None /\ slug = None THEN Raise("AttributeError", 49)
       ELSE IF pk # None
       THEN IF view.pk_index_name # None
            THEN Return(GetAllQ(queryset, pk, view.pk_index_name))
            ELSE Return(FilterQ(queryset, view.pk_field, pk))
       ELSE IF view.slug_index_name # None
            THEN Return(GetAllQ(queryset, slug, view.slug_index_name))
            ELSE Return(FilterQ(queryset, view.slug_field, slug))

\* json.loads gives the mapping of the body; dict(request.POST) gives each
\* form field as the list of its values.
get_request_data(content_type, body) ==
    IF content_type = "application/json" THEN body
    ELSE LET field(f) == IF body[f] = Missing THEN Missing ELSE List1(body[f].s)
         IN Doc(field("id"), field("slug"), field("name"))

get_update_data(content_type, body) == get_request_data(content_type, body)

\* One more mapping around a value: {"k": val}.
Wrap(val) ==
    IF val.kind = "str" THEN Nest(1, val.s)
    ELSE IF val.kind = "list" THEN NestList(2, val.s)
    ELSE IF val.kind \in {"obj", "objlist"} THEN [val EXCEPT !.depth = val.depth + 1]
    ELSE val

\* The identifying field and value of a request.
KeyField(view, kwargs) == IF kwargs.pk # None THEN view.pk_field ELSE view.slug_field
KeyValue(kwargs) == IF kwargs.pk # None THEN kwargs.pk ELSE kwargs.slug

\* get_insert_data is called by post and defined by no class of the file; a
\* subclass supplies it: the payload as it is ("identity"), the payload with
\* the identifying key set ("merge_key"), or that with the name nested one
\* level deeper ("wrap").
get_insert_data(view, kwargs, update_data) ==
    LET keyed == [update_data EXCEPT ![KeyField(view, kwargs)] = Str(KeyValue(kwargs))]
    IN IF view.get_insert_data = "identity" THEN update_data
       ELSE IF view.get_insert_data = "merge_key" THEN keyed
       ELSE [keyed EXCEPT !["name"] = Wrap(keyed["name"])]

\* self.object, read by get_success_url: no method of the file assigns it.
ObjectIsSet == FALSE

\* success_url.format(**self.object) for the template "/w/{slug}".
get_success_url(view, object) ==
    IF view.success_url # None
    THEN IF ~ObjectIsSet THEN [ok |-> FALSE, exc |-> "AttributeError", at |-> 109, location |-> Missing]
         ELSE IF object["slug"] = Missing
         THEN [ok |-> FALSE, exc |-> "KeyError", at |-> 109, location |-> Missing]
         ELSE [ok |-> TRUE, exc |-> "", at |-> 0, location |-> object["slug"]]
    ELSE [ok |-> FALSE, exc |-> "ImproperlyConfigured", at |-> 111, location |-> Missing]

\* max(result.values()) == 0.  With first_error in the reply the values mix
\* a string with the integers: the comparison is a TypeError on Python 3 and
\* orders the string above every integer on Python 2.
\* The test made on the count of changed documents alone.
MaxIsZero_changed_only(result) == ~result.first_error /\ result.replaced = 0

\* The test made with min in place of max.
MaxIsZero_min(result) ==
    ~result.first_error /\ \E m \in Counters(result) : m = 0

MaxIsZero(result) == ~result.first_error /\ Max(Counters(result)) = 0
MaxRaises(result, py) == result.first_error /\ py = 3

\* RethinkMixin: the instance attribute rethink_conn, and how many times the
\* instance has called the provider (django_rethink.connection.get_connection),
\* which hands out a handle on each call.
ConnSeq == <<"conn1", "conn2", "conn3", "conn4">>
NoConn == [rethink_conn |-> None, acquired |-> 0]

\* get_connection that asks the provider on every call.
get_connection_no_memo(self) ==
    [rethink_conn |-> ConnSeq[self.acquired + 1], acquired |-> self.acquired + 1]

get_connection(self) ==
    IF self.rethink_conn = None
    THEN [rethink_conn |-> ConnSeq[self.acquired + 1], acquired |-> self.acquired + 1]
    ELSE self

\* The outcome of a request: the response or the exception, the query it
\* resolved, the replies of its writes, the connection of the view instance
\* and the handles the writes ran on, and the trace of what it did.
NoOutcome ==
    [status |-> "none", exc |-> "", at |-> 0, kind |-> "", location |-> Missing,
     qs |-> NoQuery, upd |-> NoResult, ins |-> NoResult, insdoc |-> EmptyDict,
     obj |-> EmptyDict, conn |-> NoConn, upd_conn |-> None, ins_conn |-> None,
     instable |-> "", fallback |-> FALSE, trace |-> <<>>]

Error(o, exc, at) == [o EXCEPT !.status = "error", !.exc = exc, !.at = at]

\* A write sent to the store twice.
Issue_retry(trace, op) == Append(Append(trace, op), op)

\* .run(conn) of a write: the operation goes to the store, once.
Issue(trace, op) == Append(trace, op)

\* The test before the insert, made to depend on insert_if_missing.
ShouldInsert_if_missing(view, result) == view.insert_if_missing /\ MaxIsZero(result)

\* if max(result.values()) == 0: the insert follows.
ShouldInsert(view, result) == MaxIsZero(result)

\* post, lines 127-130: the connection, the payload, the resolution, the
\* update and the test of its reply.  next tells what follows: "insert",
\* "respond", or "raised" when an exception ended the request.
post_run_update(tbls, view, kwargs, content_type, body, py) ==
    LET self == get_connection(NoConn)
        conn == self.rethink_conn
        update_data == get_update_data(content_type, body)
        qs == get_object_qs(view, kwargs)
        o1 == [NoOutcome EXCEPT !.qs = qs.q, !.conn = self]
    IN IF ~qs.ok
       THEN [tables |-> tbls, out |-> Error(o1, qs.exc, qs.at), next |-> "raised"]
       ELSE IF ~exprDict(update_data, NestingDepth)
       THEN [tables |-> tbls, out |-> Error(o1, "ReqlDriverCompileError", 129),
             next |-> "raised"]
       ELSE
       LET u == RunUpdate(tbls, qs.q, update_data)
           o2 == [o1 EXCEPT !.upd = u.result, !.upd_conn = conn,
                            !.trace = Issue(@, "update")]
       IN IF u.result.raised
          THEN [tables |-> tbls, out |-> Error(o2, "ReqlOpFailedError", 129),
                next |-> "raised"]
          ELSE IF MaxRaises(u.result, py)
          THEN [tables |-> u.tables, out |-> Error(o2, "TypeError", 130),
                next |-> "raised"]
          ELSE [tables |-> u.tables, out |-> o2,
                next |-> IF ShouldInsert(view, u.result) THEN "insert" ELSE "respond"]

\* post, line 131: the insert of get_insert_data(update_data) into
\* r.table(self.table_name), on the connection of line 127.
post_run_insert(tbls, view, kwargs, content_type, body, o) ==
    LET update_data == get_update_data(content_type, body)
        o2 == [o EXCEPT !.fallback = TRUE]
    IN IF view.get_insert_data = "undefined"
       THEN [tables |-> tbls, out |-> Error(o2, "AttributeError", 131), next |-> "raised"]
       ELSE
       LET doc == get_insert_data(view, kwargs, update_data)
           o3 == [o2 EXCEPT !.insdoc = doc]
       IN IF ~exprDict(doc, NestingDepth)
          THEN [tables |-> tbls, out |-> Error(o3, "ReqlDriverCompileError", 131),
                next |-> "raised"]
          ELSE
          LET i == RunInsert(tbls, view.table_name, doc)
              o4 == [o3 EXCEPT !.ins = i.result, !.ins_conn = o.conn.rethink_conn,
                               !.instable = view.table_name,
                               !.trace = Issue(@, "insert")]
          IN IF i.result.raised
             THEN [tables |-> tbls, out |-> Error(o4, "ReqlOpFailedError", 131),
                   next |-> "raised"]
             ELSE [tables |-> i.tables, out |-> o4, next |-> "respond"]

\* The response with get_success_url evaluated before the content type is
\* looked at.
post_respond_url_first(tbls, view, content_type, o) ==
    LET o5 == [o EXCEPT !.trace = Append(@, "post_update")]
        url == get_success_url(view, o.obj)
        o6 == [o5 EXCEPT !.trace = Append(@, "get_success_url")]
    IN IF ~url.ok THEN [tables |-> tbls, out |-> Error(o6, url.exc, url.at)]
       ELSE IF content_type = "application/json"
       THEN [tables |-> tbls,
             out |-> [o6 EXCEPT !.status = "ok", !.kind = "json",
                                !.trace = Append(@, "response")]]
       ELSE [tables |-> tbls,
             out |-> [o6 EXCEPT !.status = "ok", !.kind = "redirect",
                                !.location = url.location,
                                !.trace = Append(@, "response")]]

\* post, lines 132-136: the hook post_update, then the response: the JSON
\* body, or the redirect to get_success_url().
post_respond(tbls, view, content_type, o) ==
    LET o5 == [o EXCEPT !.trace = Append(@, "post_update")]
    IN IF content_type = "application/json"
       THEN [tables |-> tbls,
             out |-> [o5 EXCEPT !.status = "ok", !.kind = "json",
                                !.trace = Append(@, "response")]]
       ELSE LET url == get_success_url(view, o.obj)
                o6 == [o5 EXCEPT !.trace = Append(@, "get_success_url")]
            IN IF url.ok
               THEN [tables |-> tbls,
                     out |-> [o6 EXCEPT !.status = "ok", !.kind = "redirect",
                                        !.location = url.location,
                                        !.trace = Append(@, "response")]]
               ELSE [tables |-> tbls, out |-> Error(o6, url.exc, url.at)]

\* RethinkUpdateView.post, on the tables tbls: the tables it leaves and the
\* outcome of the request.  s1 is what lines 127-130 leave, s2 what line 131
\* leaves; each is computed once.
post(tbls, view, kwargs, content_type, body, py) ==
    CHOOSE r \in UNION {
        IF s1.next = "raised" THEN {[tables |-> s1.tables, out |-> s1.out]}
        ELSE IF s1.next = "respond"
        THEN {post_respond(s1.tables, view, content_type, s1.out)}
        ELSE {IF s2.next = "raised" THEN [tables |-> s2.tables, out |-> s2.out]
              ELSE post_respond(s2.tables, view, content_type, s2.out) :
                 s2 \in {post_run_insert(s1.tables, view, kwargs, content_type,
                                         body, s1.out)}} :
           s1 \in {post_run_update(tbls, view, kwargs, content_type, body, py)}} : TRUE

put(tbls, view, kwargs, content_type, body, py) ==
    post(tbls, view, kwargs, content_type, body, py)

\* What queryset.run(conn).next() may return: any document of the selection
\* (the store fixes no order), EmptyDict standing for an empty cursor.
Cursor(tbls, q) ==
    IF q.op = "none" \/ Selection(tbls, q) = {} THEN {EmptyDict} ELSE Selection(tbls, q)

\* get_object that lets the empty cursor through, returning no document.
get_object_no_404(tbls, view, kwargs, obj) ==
    LET qs == get_object_qs(view, kwargs)
        o0 == [NoOutcome EXCEPT !.qs = qs.q]
        o1 == [o0 EXCEPT !.conn = get_connection(NoConn)]
    IN IF ~qs.ok THEN Error(o0, qs.exc, qs.at)
       ELSE IF QueryRaises(qs.q) THEN Error(o1, "ReqlOpFailedError", 68)
       ELSE [o1 EXCEPT !.status = "ok", !.kind = "object", !.obj = obj]

\* RethinkSingleObjectMixin.get_object: the first document of the cursor,
\* here any document obj of the selection, or Http404 when it is empty.
get_object(tbls, view, kwargs, obj) ==
    LET qs == get_object_qs(view, kwargs)
        o0 == [NoOutcome EXCEPT !.qs = qs.q]
        o1 == [o0 EXCEPT !.conn = get_connection(NoConn)]
    IN IF ~qs.ok THEN Error(o0, qs.exc, qs.at)
       ELSE IF QueryRaises(qs.q) THEN Error(o1, "ReqlOpFailedError", 68)
       ELSE IF Selection(tbls, qs.q) = {} THEN Error(o1, "Http404", 70)
       ELSE [o1 EXCEPT !.status = "ok", !.kind = "object", !.obj = obj]

\* ---------------------------------------------------------------- inputs
\* The class attributes as the file sets them.
ViewDefaults ==
    [pk_field |-> "id", slug_field |-> "slug", pk_index_name |-> None,
     slug_index_name |-> None, table_name |-> None, queryset |-> None,
     success_url |-> None, insert_if_missing |-> FALSE,
     get_insert_data |-> "undefined"]

\* A working deployment: a table, resolution by filter, an insert document
\* that carries the identifying key, a success template.
ExampleView ==
    [ViewDefaults EXCEPT !.table_name = "widgets", !.get_insert_data = "merge_key",
                         !.success_url = SuccessTemplate]

\* The view classes of a deployment: ExampleView, and the classes that
\* differ from it in how the pk is resolved, in how the slug is resolved, in
\* the table or queryset, in get_insert_data, in success_url, or in
\* insert_if_missing.
Views ==
    {ExampleView,
     [ExampleView EXCEPT !.pk_index_name = "id"],
     [ExampleView EXCEPT !.pk_field = "name"],
     [ExampleView EXCEPT !.pk_field = "name", !.pk_index_name = "name"],
     [ExampleView EXCEPT !.slug_index_name = "slug"],
     [ExampleView EXCEPT !.table_name = None],
     [ExampleView EXCEPT !.table_name = None, !.queryset = "widgets"],
     [ExampleView EXCEPT !.queryset = "gadgets"],
     [ExampleView EXCEPT !.queryset = "gadgets", !.slug_index_name = "slug"],
     [ExampleView EXCEPT !.get_insert_data = "undefined"],
     [ExampleView EXCEPT !.get_insert_data = "identity"],
     [ExampleView EXCEPT !.get_insert_data = "wrap"],
     [ExampleView EXCEPT !.success_url = None],
     [ExampleView EXCEPT !.insert_if_missing = TRUE]}

Kwargs == [pk : {None, "a"}, slug : {None, "b"}]

ContentTypes == {"application/json", "application/x-www-form-urlencoded"}

\* Request bodies: JSON objects, and form fields (strings only).
FormBodies == {Doc(Missing, Missing, Str("a"))}
JsonBodies ==
    {Doc(Missing, Missing, Str("b")),
     Doc(Missing, Str("a"), Missing), Doc(Str("b"), Missing, Missing),
     Doc(Missing, Missing, Nest(NestingDepth - 1, "")),
     Doc(Missing, Missing, Nest(NestingDepth, ""))}
Bodies(content_type) ==
    IF content_type = "application/json" THEN JsonBodies ELSE FormBodies

Pythons == {2, 3}

D1 == Doc(Str("a"), Str("b"), Str("a"))
D2 == Doc(Str("b"), Str("b"), Str("a"))
D3 == Doc(Str("b"), Missing, Missing)
Tables(w, g) == [t \in TableNames |-> IF t = "widgets" THEN w ELSE g]
InitTables ==
    {Tables({}, {}), Tables({D1}, {}), Tables({D1, D2}, {}), Tables({D3}, {})}

\* ----------------------------------------------------------------- state
VARIABLES
    tables,     \* table name -> set of documents
    req,        \* the request being served
    out,        \* its outcome
    before,     \* the tables when the request arrived
    hist,       \* whether the request repeats the one before, and what that one matched
    n,          \* requests served so far
    procs       \* the requests in flight at the same time, each with its position in post

vars == <<tables, req, out, before, hist, n, procs>>

NoRequest ==
    [op |-> "none", view |-> ViewDefaults, kwargs |-> [pk |-> None, slug |-> None],
     content_type |-> "", body |-> EmptyDict]
NoHist == [repeat |-> FALSE, matched |-> 0, docs |-> 0]

\* Requests served at the same time by two workers, each by its own view
\* instance.  pc is the position in post: "start", then "insert" or
\* "respond", then "done"; late tells that the update ran after another
\* request's insert.
Procs == {1, 2}
NoProc ==
    [pc |-> "idle", view |-> ViewDefaults, kwargs |-> [pk |-> None, slug |-> None],
     content_type |-> "", body |-> EmptyDict, py |-> 2, late |-> FALSE,
     out |-> NoOutcome]
NoProcs == [p \in Procs |-> NoProc]

Matched(result) == result.errors + result.replaced + result.unchanged
DocCount(tbls) == Cardinality(UNION {{<<t, d>> : d \in tbls[t]} : t \in TableNames})

Init ==
    /\ tables \in InitTables
    /\ req = NoRequest
    /\ out = NoOutcome
    /\ before = tables
    /\ hist = NoHist
    /\ n = 0
    /\ procs = NoProcs

\* A POST request arrives at a view and is served by post.
Post ==
    /\ req.op = "none"
    /\ n < MaxRequests
    /\ \E view \in Views, kwargs \in Kwargs, content_type \in ContentTypes, py \in Pythons :
        \E body \in Bodies(content_type) :
          \E r \in {post(tables, view, kwargs, content_type, body, py)} :
             /\ tables' = r.tables
             /\ out' = r.out
             /\ req' = [op |-> "post", view |-> view, kwargs |-> kwargs,
                        content_type |-> content_type, body |-> body]
    /\ before' = tables
    /\ hist' = NoHist
    /\ n' = n + 1
    /\ UNCHANGED procs

\* A PUT request: put hands over to post.
Put ==
    /\ req.op = "none"
    /\ n < MaxRequests
    /\ \E view \in {ExampleView}, kwargs \in Kwargs, content_type \in ContentTypes, py \in Pythons :
        \E body \in Bodies(content_type) :
          \E r \in {put(tables, view, kwargs, content_type, body, py)} :
             /\ tables' = r.tables
             /\ out' = r.out
             /\ req' = [op |-> "put", view |-> view, kwargs |-> kwargs,
                        content_type |-> content_type, body |-> body]
    /\ before' = tables
    /\ hist' = NoHist
    /\ n' = n + 1
    /\ UNCHANGED procs

\* The same write request is sent again, right after the one just served.
Repeat ==
    /\ req.op \in {"post", "put"}
    /\ n < MaxRequests
    /\ \E py \in Pythons :
          \E r \in {post(tables, req.view, req.kwargs, req.content_type, req.body, py)} :
             /\ tables' = r.tables
             /\ out' = r.out
    /\ req' = req
    /\ before' = tables
    /\ hist' = [repeat |-> TRUE, matched |-> Matched(out.upd), docs |-> DocCount(before)]
    /\ n' = n + 1
    /\ UNCHANGED procs

\* A read of the single object (get_object), by a view that uses the mixin.
GetObject ==
    /\ req.op = "none"
    /\ n < MaxRequests
    /\ \E view \in Views, kwargs \in Kwargs :
        \E obj \in Cursor(tables, get_object_qs(view, kwargs).q) :
          /\ out' = get_object(tables, view, kwargs, obj)
          /\ req' = [op |-> "get_object", view |-> view, kwargs |-> kwargs,
                     content_type |-> "", body |-> EmptyDict]
    /\ UNCHANGED tables
    /\ before' = tables
    /\ hist' = NoHist
    /\ n' = n + 1
    /\ UNCHANGED procs

\* The view instance serving the request calls get_connection once more (an
\* overridden hook or a template context would): the handle it holds is
\* returned, or the provider is asked when it holds none.
GetConnection ==
    /\ req.op # "none"
    /\ out' = [out EXCEPT !.conn = get_connection(out.conn)]
    /\ UNCHANGED <<tables, req, before, hist, n, procs>>

\* The request is over: the view instance that served it is dropped.
Finish ==
    /\ req.op # "none"
    /\ n < MaxRequests
    /\ req' = NoRequest
    /\ out' = NoOutcome
    /\ before' = tables
    /\ hist' = NoHist
    /\ UNCHANGED <<tables, n, procs>>

Next == Post \/ Put \/ Repeat \/ GetObject \/ GetConnection \/ Finish

Spec == Init /\ [][Next]_vars

\* ------------------------------------------------- concurrent requests
\* Two write requests for the same identifying key are in flight together;
\* the store runs each update and each insert atomically, and the requests
\* interleave between them.
RaceViews ==
    {ExampleView,
     [ExampleView EXCEPT !.pk_field = "name"],
     [ExampleView EXCEPT !.get_insert_data = "identity"],
     [ExampleView EXCEPT !.get_insert_data = "undefined"]}
RaceKwargs == {[pk |-> "a", slug |-> None], [pk |-> None, slug |-> "b"]}
RaceBodies == {Doc(Missing, Missing, Str("b")), Doc(Missing, Str("a"), Missing)}

RaceInit ==
    /\ tables \in InitTables
    /\ \E view \in RaceViews, kwargs \in RaceKwargs :
          procs \in [Procs -> [pc : {"start"}, view : {view}, kwargs : {kwargs},
                              content_type : {"application/json"}, body : RaceBodies,
                              py : Pythons, late : {FALSE}, out : {NoOutcome}]]
    /\ req = NoRequest
    /\ out = NoOutcome
    /\ before = tables
    /\ hist = NoHist
    /\ n = 0

\* Lines 127-130 of post for request p: up to the update and the test.
RaceUpdate(p) ==
    /\ procs[p].pc = "start"
    /\ \E me \in {procs[p]} :
        \E s \in {post_run_update(tables, me.view, me.kwargs, me.content_type,
                                  me.body, me.py)} :
          /\ tables' = s.tables
          /\ procs' = [procs EXCEPT
                          ![p].out = s.out,
                          ![p].late = \E q \in Procs \ {p} : procs[q].out.ins.ran,
                          ![p].pc = IF s.next = "raised" THEN "done" ELSE s.next]
    /\ UNCHANGED <<req, out, before, hist, n>>

\* Line 131 of post for request p: the insert.
RaceInsert(p) ==
    /\ procs[p].pc = "insert"
    /\ \E me \in {procs[p]} :
        \E s \in {post_run_insert(tables, me.view, me.kwargs, me.content_type,
                                  me.body, me.out)} :
          /\ tables' = s.tables
          /\ procs' = [procs EXCEPT
                          ![p].out = s.out,
                          ![p].pc = IF s.next = "raised" THEN "done" ELSE s.next]
    /\ UNCHANGED <<req, out, before, hist, n>>

\* Lines 132-136 of post for request p: the hook and the response.
RaceRespond(p) ==
    /\ procs[p].pc = "respond"
    /\ \E me \in {procs[p]} :
        \E s \in {post_respond(tables, me.view, me.content_type, me.out)} :
          /\ tables' = s.tables
          /\ procs' = [procs EXCEPT ![p].out = s.out, ![p].pc = "done"]
    /\ UNCHANGED <<req, out, before, hist, n>>

RaceNext == \E p \in Procs : RaceUpdate(p) \/ RaceInsert(p) \/ RaceRespond(p)

SpecRace == RaceInit /\ [][RaceNext]_vars

\* ---------------------------------------------------------------- claims
IsWrite == req.op \in {"post", "put"}
UpdateData == get_update_data(req.content_type, req.body)
IsJson == req.content_type = "application/json"

\* The documents of the resolved table that carry the identifying value in
\* the identifying field.
Matching(tbls) ==
    {d \in tbls[out.qs.table] :
        d[KeyField(req.view, req.kwargs)] = Str(KeyValue(req.kwargs))}

\* C1: after an upsert that returns a success response, exactly one document
\* of the table matches the identifying parameter (pk, else slug) used for
\* resolution: the pre-existing one, updated, or one newly inserted.  Stated
\* here for the requests most favourable to it: at most one document matched
\* before, the payload leaves the identifying field alone, the insert
\* document carries the identifying key, and the view inserts into the
\* table its query reads.
C1_ExactlyOneMatch ==
    (/\ IsWrite /\ out.status = "ok"
     /\ Cardinality(Matching(before)) <= 1
     /\ UpdateData[KeyField(req.view, req.kwargs)] = Missing
     /\ req.view.get_insert_data \in {"merge_key", "wrap"}
     /\ req.view.table_name = out.qs.table) =>
        /\ Cardinality(Matching(tables)) = 1
        /\ \A d \in Matching(tables) :
              \/ \E b \in Matching(before) : b[PrimaryKey] = d[PrimaryKey]
              \/ /\ out.ins.inserted = 1
                 /\ d \notin before[out.qs.table]

\* C2: with both a pk and a slug in the URL kwargs, the query is narrowed by
\* the pk alone, with the pk's strategy (get_all on pk_index_name when set,
\* else a filter on pk_field); the slug value and slug_index_name change
\* nothing in it.
C2_PkPrecedence ==
    (req.op # "none" /\ req.kwargs.pk # None /\ req.kwargs.slug # None
        /\ get_queryset(req.view).ok) =>
        /\ out.qs = IF req.view.pk_index_name # None
                    THEN [op |-> "get_all", table |-> get_queryset(req.view).q.table,
                          on |-> req.view.pk_index_name, key |-> req.kwargs.pk]
                    ELSE [op |-> "filter", table |-> get_queryset(req.view).q.table,
                          on |-> req.view.pk_field, key |-> req.kwargs.pk]
        /\ \A slug \in {None, "a", "b"}, slug_index_name \in {None, "slug"} :
              get_object_qs([req.view EXCEPT !.slug_index_name = slug_index_name],
                            [req.kwargs EXCEPT !.slug = slug]).q = out.qs

C2_Witness ==
    /\ req.op = "post"
    /\ req.kwargs.pk = "a" /\ req.kwargs.slug = "b"
    /\ req.view.slug_index_name = "slug"
    /\ out.qs.op = "filter" /\ out.qs.on = "id" /\ out.qs.key = "a"
    /\ out.upd.ran

\* C3: with neither pk nor slug the resolution raises its configuration
\* error (AttributeError at line 49, or ImproperlyConfigured at line 80 when
\* no table is configured either) and returns no query; on the upsert path
\* no update and no insert has run and the tables are as before.
C3_NeitherRaises ==
    (req.op # "none" /\ req.kwargs.pk = None /\ req.kwargs.slug = None) =>
        /\ out.status = "error"
        /\ \/ out.exc = "AttributeError" /\ out.at = 49
           \/ out.exc = "ImproperlyConfigured" /\ out.at = 80
        /\ out.qs = NoQuery
        /\ ~out.upd.ran /\ ~out.ins.ran
        /\ tables = before

C3_Witness ==
    /\ req.op = "post"
    /\ req.kwargs.pk = None /\ req.kwargs.slug = None
    /\ out.exc = "AttributeError" /\ out.at = 49
    /\ before["widgets"] # {}
    /\ req.view.table_name = "widgets"

\* The payload gives the field the pk is resolved on another value, and
\* the store lets it (the field is not the primary key).
MovesKey ==
    /\ req.view.pk_field # PrimaryKey
    /\ UpdateData[req.view.pk_field] \notin {Missing, Str(req.kwargs.pk)}

AllDocs(tbls) == UNION {{<<t, d>> : d \in tbls[t]} : t \in TableNames}
NewDocs == AllDocs(tables) \ AllDocs(before)

\* C5: an upsert with a pk that matches no document leaves exactly one new
\* document, in the table; it holds the pk field with the requested value
\* and every field of the payload; the documents that were there are
\* unchanged.  Stated for payloads r.expr accepts, sent to the view class as
\* the file defines it (no subclass adds get_insert_data).
C5_InsertOnMiss ==
    (/\ IsWrite /\ req.kwargs.pk # None
     /\ req.view.get_insert_data = ViewDefaults.get_insert_data
     /\ out.qs # NoQuery /\ ~QueryRaises(out.qs)
     /\ Selection(before, out.qs) = {}
     /\ exprDict(UpdateData, NestingDepth)) =>
        /\ Cardinality(NewDocs) = 1
        /\ \A e \in NewDocs :
              /\ e[1] = out.qs.table
              /\ e[2][req.view.pk_field] = Str(req.kwargs.pk)
              /\ \A f \in Fields \ {req.view.pk_field} :
                    UpdateData[f] # Missing => e[2][f] = UpdateData[f]
        /\ AllDocs(before) \subseteq AllDocs(tables)

\* The store reported the insert as failed: an error counted in its reply,
\* or an exception.
InsertFailed == out.ins.ran /\ (out.ins.errors > 0 \/ out.ins.raised)
UpdateFailed == out.upd.ran /\ (out.upd.errors > 0 \/ out.upd.raised)

\* C6: when the store reports an error for the fallback insert (a duplicate
\* key), the request ends in the error InsertConflict and never in a success
\* response.
C6_FailedInsertIsError ==
    (IsWrite /\ out.ins.ran /\ out.ins.errors > 0) =>
        (out.status = "error" /\ out.exc = "InsertConflict")

\* C7: whenever the update or the insert of an upsert reports an error (a
\* non-zero error counter, or a raised store error) the request ends in an
\* error, never in the success response.
C7_NoErrorSuppressed ==
    (IsWrite /\ (UpdateFailed \/ InsertFailed)) => out.status = "error"

\* C8 as stated: a payload nested deeper than NestingDepth levels makes the
\* upsert fail with the depth error (ReqlDriverCompileError) and leaves the
\* tables as they were; so does an insert document nested deeper than that.
C8_TooDeepRejected ==
    /\ (IsWrite /\ Levels(UpdateData) > NestingDepth) =>
          /\ out.status = "error" /\ out.exc = "ReqlDriverCompileError"
          /\ tables = before
    /\ (IsWrite /\ out.insdoc # EmptyDict /\ Levels(out.insdoc) > NestingDepth) =>
          /\ out.status = "error" /\ out.exc = "ReqlDriverCompileError"
          /\ tables = before

\* C8 amended: the request fails and the tables are as they were; the error
\* is the depth error whenever the request resolves to a query, and the
\* resolution's own error otherwise, which is raised first.
C8_TooDeepRejected_AfterResolution ==
    /\ (IsWrite /\ Levels(UpdateData) > NestingDepth) =>
          /\ out.status = "error"
          /\ tables = before
          /\ ~out.upd.ran /\ ~out.ins.ran
          /\ IF get_object_qs(req.view, req.kwargs).ok
             THEN out.exc = "ReqlDriverCompileError" /\ out.at = 129
             ELSE \/ out.exc = "AttributeError" /\ out.at = 49
                  \/ out.exc = "ImproperlyConfigured" /\ out.at = 80
    /\ (IsWrite /\ out.insdoc # EmptyDict /\ Levels(out.insdoc) > NestingDepth) =>
          /\ out.status = "error"
          /\ out.exc = "ReqlDriverCompileError" /\ out.at = 131
          /\ ~out.ins.ran
          /\ tables = before

C8_Witness ==
    /\ req.op = "post"
    /\ Levels(UpdateData) = NestingDepth + 1
    /\ out.exc = "ReqlDriverCompileError" /\ out.at = 129
    /\ Selection(before, out.qs) # {}

\* The writes of the request went through: the update matched and changed
\* or kept documents without error, or it matched none and the insert added
\* its document.
WriteSucceeded ==
    /\ out.upd.ran /\ ~out.upd.raised /\ out.upd.errors = 0
    /\ \/ Matched(out.upd) >= 1
       \/ out.ins.ran /\ out.ins.inserted = 1

\* C9: a successful upsert answers by content type alone: a JSON request
\* gets the body {"success": true} and no redirect, any other request a
\* redirect to success_url filled in from the object, on the update path
\* and on the insert path alike.
C9_ResponseByContentType ==
    (IsWrite /\ WriteSucceeded /\ req.view.success_url # None) =>
        /\ out.status = "ok"
        /\ IF IsJson
           THEN out.kind = "json" /\ out.location = Missing
           ELSE out.kind = "redirect" /\ out.location # Missing

\* The view with its pk resolved through the index on pk_field, and through
\* a filter on pk_field; likewise for the slug.
WithIndex(view) ==
    [view EXCEPT !.pk_index_name = view.pk_field, !.slug_index_name = view.slug_field]
WithFilter(view) ==
    [view EXCEPT !.pk_index_name = None, !.slug_index_name = None]

IsStoreWrite(e) == e \in {"update", "insert"}
Writes(trace) == SelectSeq(trace, IsStoreWrite)

\* C11: an upsert request that reaches the store sends exactly one update,
\* then at most one insert, in that order: its writes are <<update>> or
\* <<update, insert>>, the insert being there exactly when the insert ran;
\* a request that does not reach the store sends nothing and leaves the
\* tables as they were.
C11_UpdateThenInsert ==
    IsWrite =>
        /\ out.upd.ran =>
              /\ Writes(out.trace) \in {<<"update">>, <<"update", "insert">>}
              /\ out.ins.ran <=> Writes(out.trace) = <<"update", "insert">>
              /\ Head(out.trace) = "update"
        /\ ~out.upd.ran =>
              /\ Writes(out.trace) = <<>>
              /\ ~out.ins.ran
              /\ tables = before

C11_Witness ==
    /\ req.op = "post"
    /\ Writes(out.trace) = <<"update", "insert">>
    /\ out.upd.ran /\ out.ins.inserted = 1
    /\ out.status = "ok"

\* C12: the insert fallback is taken exactly when the update matched no
\* document: the test max(result.values()) == 0 is true if and only if the
\* resolved query selected nothing; an update that matched documents and
\* left them all unchanged takes no insert and changes no table.
C12_InsertIffNoMatch ==
    (IsWrite /\ out.upd.ran /\ ~out.upd.raised) =>
        LET matched == Selection(before, out.qs)
        IN /\ MaxIsZero(out.upd) <=> matched = {}
           /\ out.fallback <=> matched = {}
           /\ out.ins.ran => matched = {}
           /\ (matched # {} /\ out.upd.unchanged = Cardinality(matched)) =>
                 /\ ~out.fallback /\ ~out.ins.ran
                 /\ tables = before

C12_Witness ==
    /\ IsWrite
    /\ Selection(before, out.qs) # {}
    /\ out.upd.unchanged >= 1 /\ out.upd.replaced = 0 /\ out.upd.errors = 0
    /\ ~out.fallback
    /\ out.status = "ok"

\* The documents of a table that carry the identifying key of request p.
RaceMatching(p) ==
    {d \in tables[procs[p].view.table_name] :
        d[KeyField(procs[p].view, procs[p].kwargs)] = Str(KeyValue(procs[p].kwargs))}

\* Both requests are over, both took the insert after an update that ran
\* before the other's insert, the identifying field is the primary key (the
\* field the store keeps unique) and the insert document carries it.
BothRaced ==
    /\ \A p \in Procs :
          /\ procs[p].pc = "done"
          /\ procs[p].out.fallback /\ ~procs[p].late
          /\ procs[p].out.ins.ran
          /\ KeyField(procs[p].view, procs[p].kwargs) = PrimaryKey
          /\ procs[p].view.get_insert_data = "merge_key"

\* C13: when two upserts for the same key both see a zero-match update
\* before either inserts, and the store keeps the identifying field unique,
\* the table ends with at most one document for the key, exactly one of the
\* inserts succeeds, and the other request ends in InsertConflict, not in a
\* success response.
C13_RaceLoserConflict ==
    BothRaced =>
        /\ \A p \in Procs : Cardinality(RaceMatching(p)) <= 1
        /\ Cardinality({p \in Procs : procs[p].out.ins.inserted = 1}) = 1
        /\ \A p \in Procs :
              procs[p].out.ins.inserted = 0 =>
                  /\ procs[p].out.status = "error"
                  /\ procs[p].out.exc = "InsertConflict"

\* C14: the fallback insert goes to the table the resolved query was built
\* over, the one the update ran against: the insert's table is the query's
\* table, the store accepts it as a table, and every document the request
\* adds is in that table; with table_name alone and with a queryset alike.
C14_InsertIntoQueryTable ==
    (IsWrite /\ out.ins.ran) =>
        /\ out.instable = out.qs.table
        /\ ~out.ins.raised
        /\ \A e \in NewDocs : e[1] = out.qs.table

\* The calls of the hook post_update in a trace, and whether each comes
\* after every write and before the response is built.
IsHook(e) == e = "post_update"
Hooks(trace) == Len(SelectSeq(trace, IsHook))
HookOrdered(trace) ==
    \A i, j \in 1..Len(trace) :
        trace[i] = "post_update" =>
            /\ IsStoreWrite(trace[j]) => j < i
            /\ trace[j] \in {"get_success_url", "response"} => i < j

\* C15: post_update is called once per upsert request whose write went
\* through (the update, or the insert after a zero-match update), after the
\* writes and before the response; it is not called when the request fails
\* before or during the writes.
C15_HookOnceOnSuccess ==
    IsWrite =>
        /\ Hooks(out.trace) <= 1
        /\ HookOrdered(out.trace)
        /\ Hooks(out.trace) = 1 <=> WriteSucceeded

\* C16: get_object runs the resolved query and returns a document the query
\* selects (the first of the cursor), or raises Http404 exactly when the
\* query selects nothing, and writes nothing; post never ends in Http404: an
\* update that matched nothing goes on to the insert.
C16_ReadNotFoundWriteNever ==
    /\ req.op = "get_object" =>
          /\ tables = before
          /\ ~out.upd.ran /\ ~out.ins.ran /\ Writes(out.trace) = <<>>
          /\ (out.qs # NoQuery /\ ~QueryRaises(out.qs)) =>
                IF Selection(tables, out.qs) = {}
                THEN out.status = "error" /\ out.exc = "Http404" /\ out.at = 70
                ELSE out.status = "ok" /\ out.obj \in Selection(tables, out.qs)
    /\ IsWrite =>
          /\ out.exc # "Http404"
          /\ (out.upd.ran /\ ~out.upd.raised /\ Selection(before, out.qs) = {}) =>
                out.fallback

C16_Witness ==
    /\ req.op = "get_object"
    /\ out.status = "error" /\ out.exc = "Http404"
    /\ tables[out.qs.table] # {}
    /\ n = 2

\* The primary keys present in each table.
KeysOf(tbls, t) == {d[PrimaryKey] : d \in tbls[t]}

\* C17: no step of any read or upsert removes a document: in every step the
\* primary keys present in each table are still present afterwards; a
\* get_object step, and a request that ends in its resolution, leave the
\* tables as they are.
C17_NeverDeletes ==
    [][/\ \A t \in TableNames : KeysOf(tables, t) \subseteq KeysOf(tables', t)
       /\ req'.op = "get_object" => tables' = tables
       /\ (req'.op # "none" /\ out'.qs = NoQuery) => tables' = tables]_vars

C17_Witness ==
    /\ IsWrite /\ n = 2
    /\ out.upd.replaced >= 1
    /\ tables # before
    /\ \A t \in TableNames : KeysOf(before, t) = KeysOf(tables, t)
    /\ before["widgets"] \ tables["widgets"] # {}

\* C18: in the context of one request the provider is asked for a
\* connection at most once; the view instance holds the handle it got, the
\* update runs on that handle and the insert on the same one, and further
\* get_connection calls leave the handle and the count as they are.
C18_ConnectionOnce ==
    req.op # "none" =>
        /\ out.conn.acquired <= 1
        /\ out.conn.acquired = 1 <=> out.conn.rethink_conn # None
        /\ IsWrite => out.conn.acquired = 1
        /\ out.upd.ran => out.upd_conn # None /\ out.upd_conn = out.conn.rethink_conn
        /\ out.ins.ran => out.ins_conn = out.upd_conn
        /\ get_connection(get_connection(out.conn)) = get_connection(out.conn)

C18_Witness ==
    /\ req.op = "post"
    /\ out.upd.ran /\ out.ins.ran /\ out.ins.inserted = 1
    /\ out.conn.acquired = 1
    /\ out.upd_conn = ConnSeq[1] /\ out.ins_conn = ConnSeq[1]

\* C19: whether the insert follows a zero-match update does not depend on
\* insert_if_missing: with the default FALSE the insert branch is still
\* taken, and the request leaves the same tables and the same outcome when
\* insert_if_missing is switched to its other value.
C19_InsertIfMissingIgnored ==
    IsWrite =>
        /\ (out.upd.ran /\ ~out.upd.raised /\ Selection(before, out.qs) = {}) =>
              out.fallback
        /\ \E py \in Pythons :
              post(before, [req.view EXCEPT !.insert_if_missing = ~@],
                   req.kwargs, req.content_type, req.body, py)
                  = [tables |-> tables, out |-> out]

C19_Witness ==
    /\ req.op = "post"
    /\ req.view.insert_if_missing = FALSE
    /\ Selection(before, out.qs) = {}
    /\ out.fallback /\ out.ins.inserted = 1
    /\ tables # before

\* Whether the request evaluated get_success_url, and the tables its writes
\* leave when nothing is undone.
UrlEvaluated == \E i \in 1..Len(out.trace) : out.trace[i] = "get_success_url"
AfterWrites ==
    LET u == RunUpdate(before, out.qs, UpdateData)
    IN IF out.ins.ran THEN RunInsert(u.tables, out.instable, out.insdoc).tables
       ELSE u.tables

\* C20: a JSON request never evaluates get_success_url; any other request
\* evaluates it once its update, its insert if any, and post_update have
\* run, as the last thing before the response; when it raises (no
\* success_url, or the template cannot be filled from the object) the
\* request ends in that error and the tables keep what the writes did.
C20_UrlAfterWritesNoRollback ==
    IsWrite =>
        /\ IsJson => ~UrlEvaluated
        /\ (~IsJson /\ Hooks(out.trace) = 1) => UrlEvaluated
        /\ UrlEvaluated =>
              /\ ~IsJson
              /\ out.upd.ran
              /\ \E rest \in {<<>>, <<"response">>} :
                    out.trace = Writes(out.trace) \o <<"post_update", "get_success_url">> \o rest
              /\ tables = AfterWrites
              /\ out.status = "error" =>
                    \/ out.exc = "ImproperlyConfigured" /\ out.at = 111
                          /\ req.view.success_url = None
                    \/ out.exc \in {"AttributeError", "KeyError"} /\ out.at = 109
                          /\ req.view.success_url # None

C20_Witness ==
    /\ req.op = "post" /\ ~IsJson
    /\ UrlEvaluated
    /\ out.status = "error" /\ out.exc = "ImproperlyConfigured" /\ out.at = 111
    /\ out.upd.replaced = 1
    /\ tables # before /\ tables = AfterWrites

====
